---- MODULE Spec2Model ----
(***************************************************************************)
(* A model of tokio-udt's send queue (src/queue/snd_queue.rs) and of the   *)
(* connection facade (src/connection.rs).                                  *)
(*                                                                         *)
(* The send queue is a std BinaryHeap of SendQueueNode guarded by a mutex, *)
(* a tokio Notify that wakes the worker, and a bounded mpsc channel that   *)
(* feeds the UDP sender task.  The heap is modelled as the array the       *)
(* BinaryHeap keeps (index 1 is the head), with the sift operations of the *)
(* standard library, so that the order among equal timestamps is the one   *)
(* the program really gets.                                                *)
(***************************************************************************)
EXTENDS Integers, Sequences, FiniteSets, TLC

\* ------------------------------------------------------------------ bounds
MaxTime == 1
MaxHeap == 3
NumSockets == 2
NumCallers == 2

\* --------------------------------------------------------------- constants
TOKIO_CHANNEL_CAPACITY == 50
start_time == 0

Sockets == 1..NumSockets
Callers == 1..NumCallers
Times == start_time..MaxTime

VARIABLES
    queue,        \* UdtSndQueue.queue: the BinaryHeap's array, head first
    notify,       \* UdtSndQueue.notify: TRUE when the Notify holds a permit
    now,          \* Instant::now()
    last,         \* the last call on the queue: operation, arguments, heap before, signal
    socket_refs,  \* UdtSndQueue.socket_refs: id -> the socket object the Weak points to (0: no entry)
    registry,     \* Udt's table of sockets: id -> the registered socket object (0: none)
    wpc,          \* where the worker is
    wnode,        \* the worker's next_node while an iteration runs: the popped node, or the head's timestamp
    chan,         \* the number of batches in the mpsc channel
    spc,          \* where the UDP sender task is
    status,       \* the socket's UdtStatus
    cpc,          \* where _bind_and_connect is
    addrs,        \* lookup_host's endpoints, each with what socket.connect answers for it
    idx,          \* the endpoint the for loop is at
    last_err,     \* _bind_and_connect's last_err ("None" or an error)
    connected,    \* _bind_and_connect's connected
    tried,        \* the endpoints socket.connect was called with, in order
    cstatus,      \* _bind_and_connect's status, as wait_for_connection returned it
    cres,         \* what _bind_and_connect returned ("none" while it runs)
    rcv_avail,    \* the socket's receive buffer: what is there to read
    rtask,        \* the task reading through poll_read: idle, pending or woken
    rret,         \* what poll_read returned last
    rnew,         \* the tasks poll_read spawned that have not started to wait
    rwait,        \* the tasks poll_read spawned that wait for data to read
    raced,        \* data arrived before a spawned task had started to wait
    snd_used,     \* the socket's send buffer: the packets not yet acknowledged
    wtask,        \* the task writing through poll_write: idle, pending or woken
    wret,         \* what send or poll_write returned last
    wwait,        \* the tasks poll_write spawned that wait for an ACK
    ftask,        \* the task flushing through poll_flush: idle, pending or woken
    fret,         \* what poll_flush returned last
    fnew,         \* the tasks poll_flush spawned that have not started to wait
    fwait,        \* the tasks poll_flush spawned that wait for an ACK or an empty send buffer
    stask,        \* the task closing through poll_shutdown: idle, pending or woken
    sret,         \* what poll_shutdown returned last
    cnew,         \* the tasks poll_shutdown spawned that have not called socket.close()
    crun,         \* the spawned tasks inside socket.close()
    kpc,          \* where the codec's round is: new, built, encoded, decoded, done
    pkt,          \* the control packet that is serialized
    raw,          \* the datagram
    mangled,      \* what happened to the datagram on the way: none, cut, retyped, data
    res,          \* what UdtPacket::deserialize returned for the datagram
    again,        \* the decoded packet, serialized again
    lock,         \* who holds the heap's mutex: "none", "worker" or a calling task
    tpc,          \* where each calling task is inside update, remove or insert
    targ,         \* the call each calling task is in: op, socket_id, reschedule
    removed       \* the ids whose remove has returned with no update running or called since

qvars == <<queue, notify, now, last>>
wvars == <<socket_refs, registry, wpc, wnode, chan, spc>>
cvars == <<status, cpc, addrs, idx, last_err, connected, tried, cstatus, cres>>
flvars == <<ftask, fret, fnew, fwait>>
shvars == <<stask, sret, cnew, crun>>
iovars == <<rcv_avail, rtask, rret, rnew, rwait, raced, snd_used, wtask, wret, wwait,
            flvars, shvars>>
kvars == <<kpc, pkt, raw, mangled, res, again>>
lvars == <<lock, tpc, targ, removed>>
convars == <<cvars, iovars, kvars, lvars>>
vars == <<queue, notify, now, last, socket_refs, registry, wpc, wnode, chan, spc, convars>>

\* ------------------------------------------------------- SendQueueNode, Ord
SendQueueNode(ts, id) == [timestamp |-> ts, socket_id |-> id]

\* cmp: timestamps compared and reversed, so the earliest timestamp is greatest.
\* OrdLe(a, b) is a <= b in that order.
OrdLe(a, b) == a.timestamp >= b.timestamp
OrdLt(a, b) == ~OrdLe(b, a)

\* ------------------------------------------------------ BinaryHeap (std)
Swap(data, i, j) == [data EXCEPT ![i] = data[j], ![j] = data[i]]

RECURSIVE SiftUp(_, _)
SiftUp(data, pos) ==
    IF pos > 1 /\ ~OrdLe(data[pos], data[pos \div 2])
    THEN SiftUp(Swap(data, pos, pos \div 2), pos \div 2)
    ELSE data

\* push: append, then sift the new element up while it is greater than its parent
HeapPush(data, node) == SiftUp(Append(data, node), Len(data) + 1)

\* where push leaves the new element: the index its sift up ends at
RECURSIVE SiftUpPos(_, _)
SiftUpPos(data, pos) ==
    IF pos > 1 /\ ~OrdLe(data[pos], data[pos \div 2])
    THEN SiftUpPos(Swap(data, pos, pos \div 2), pos \div 2)
    ELSE pos

PushedPos(data, node) == SiftUpPos(Append(data, node), Len(data) + 1)

\* the greater child of pos, the right one on a tie (child += (left <= right))
GreaterChild(data, pos) ==
    IF OrdLe(data[2 * pos], data[2 * pos + 1]) THEN 2 * pos + 1 ELSE 2 * pos

\* sift_down_to_bottom: take the hole to a leaf along the greater children
RECURSIVE HoleToBottom(_, _)
HoleToBottom(data, pos) ==
    IF 2 * pos + 1 <= Len(data)
    THEN LET c == GreaterChild(data, pos) IN HoleToBottom(Swap(data, pos, c), c)
    ELSE IF 2 * pos = Len(data)
         THEN [data |-> Swap(data, pos, 2 * pos), pos |-> 2 * pos]
         ELSE [data |-> data, pos |-> pos]

SiftDownToBottom(data) ==
    LET b == HoleToBottom(data, 1) IN SiftUp(b.data, b.pos)

HeapPeek(data) == data[1]

\* pop: the last element replaces the head and is sifted down to the bottom and up
HeapPop(data) ==
    IF Len(data) = 1 THEN << >>
    ELSE SiftDownToBottom([SubSeq(data, 1, Len(data) - 1) EXCEPT ![1] = data[Len(data)]])

\* sift_down_range(pos, len): stop as soon as the element is >= its greater child
RECURSIVE SiftDown(_, _)
SiftDown(data, pos) ==
    IF 2 * pos + 1 <= Len(data)
    THEN LET c == GreaterChild(data, pos) IN
         IF OrdLe(data[c], data[pos]) THEN data
         ELSE SiftDown(Swap(data, pos, c), c)
    ELSE IF 2 * pos = Len(data) /\ OrdLt(data[pos], data[2 * pos])
         THEN Swap(data, pos, 2 * pos)
         ELSE data

\* rebuild (BinaryHeap::from a Vec): sift down every inner node, last first
RECURSIVE RebuildFrom(_, _)
RebuildFrom(data, n) ==
    IF n = 0 THEN data ELSE RebuildFrom(SiftDown(data, n), n - 1)

Rebuild(data) == RebuildFrom(data, Len(data) \div 2)

\* --------------------------------------------------------------- helpers
IsHeap(data) == \A i \in 2..Len(data) : OrdLe(data[i], data[i \div 2])

Entries(data, id) == {i \in 1..Len(data) : data[i].socket_id = id}

HasEntry(data, id) == \E i \in 1..Len(data) : data[i].socket_id = id

\* how many times node occurs in the heap
Count(data, node) == Cardinality({i \in 1..Len(data) : data[i] = node})

Nodes == {SendQueueNode(ts, id) : ts \in Times, id \in Sockets}

\* ------------------------------------------------- UdtSndQueue operations
\* Each operation is a function of the heap; it yields the heap it leaves and
\* whether it called notify.notify_one().

\* insert: push, then signal when the head's socket id is the inserted one
insert(data, ts, id) ==
    LET pushed == HeapPush(data, SendQueueNode(ts, id)) IN
    [queue |-> pushed, signal |-> HeapPeek(pushed).socket_id = id]

\* remove: the heap is collected again from the entries of the other sockets
remove_KeepsId(data, id) ==
    Rebuild(SelectSeq(data, LAMBDA n : n.socket_id = id))

remove(data, id) ==
    Rebuild(SelectSeq(data, LAMBDA n : n.socket_id # id))

\* update, first lock section: with reschedule, a head of this socket is moved
\* to start_time through peek_mut (which sifts the head down when it is dropped)
\* and the worker is signalled; update then returns.
UpdateHeadIsMine(data, id, reschedule) ==
    reschedule /\ Len(data) > 0 /\ HeapPeek(data).socket_id = id

update_head_NoSignal(data) ==
    [queue |-> SiftDown([data EXCEPT ![1].timestamp = start_time], 1), signal |-> FALSE]

update_head(data) ==
    [queue |-> SiftDown([data EXCEPT ![1].timestamp = start_time], 1), signal |-> TRUE]

\* update, the rest: insert at start_time when absent; with reschedule, remove
\* and insert at start_time; otherwise nothing.
update_rest(data, id, reschedule) ==
    IF ~HasEntry(data, id) THEN insert(data, start_time, id)
    ELSE IF reschedule THEN insert(remove(data, id), start_time, id)
    ELSE [queue |-> data, signal |-> FALSE]

update(data, id, reschedule) ==
    IF UpdateHeadIsMine(data, id, reschedule) THEN update_head(data)
    ELSE update_rest(data, id, reschedule)

\* ------------------------------------------------------------------ calls
NoCall == [op |-> "none", socket_id |-> 0, timestamp |-> 0, reschedule |-> FALSE,
           pre |-> << >>, signal |-> FALSE, pos |-> 0, twice |-> FALSE]

\* the tasks that take the heap's mutex, and no task
NoTask == [task |-> "none", id |-> 0]
WorkerTask == [task |-> "worker", id |-> 0]
CallerTask(c) == [task |-> "caller", id |-> c]

\* a calling task that is in no call
NoArgs == [op |-> "none", socket_id |-> 0, reschedule |-> FALSE]

\* the heap and the Notify after an operation
Apply(r) ==
    /\ queue' = r.queue
    /\ notify' = (notify \/ r.signal)

Insert(ts, id) ==
    /\ Len(queue) < MaxHeap
    /\ Apply(insert(queue, ts, id))
    /\ last' = [op |-> "insert", socket_id |-> id, timestamp |-> ts,
                reschedule |-> FALSE, pre |-> queue,
                signal |-> insert(queue, ts, id).signal,
                pos |-> PushedPos(queue, SendQueueNode(ts, id)),
                twice |-> (last.op = "insert" /\ last.socket_id = id
                           /\ last.timestamp = ts)]
    /\ UNCHANGED now
    /\ UNCHANGED <<wvars, convars>>

Update(id, reschedule) ==
    /\ Len(update(queue, id, reschedule).queue) <= MaxHeap
    /\ Apply(update(queue, id, reschedule))
    /\ last' = [op |-> "update", socket_id |-> id, timestamp |-> start_time,
                reschedule |-> reschedule, pre |-> queue,
                signal |-> update(queue, id, reschedule).signal,
                pos |-> 0, twice |-> FALSE]
    /\ UNCHANGED now
    /\ UNCHANGED <<wvars, convars>>

Remove(id) ==
    /\ queue' = remove(queue, id)
    /\ last' = [op |-> "remove", socket_id |-> id, timestamp |-> 0,
                reschedule |-> FALSE, pre |-> queue, signal |-> FALSE,
                pos |-> 0, twice |-> FALSE]
    /\ UNCHANGED <<notify, now>>
    /\ UNCHANGED <<wvars, convars>>

\* time passes
Tick ==
    /\ now < MaxTime
    /\ now' = now + 1
    /\ UNCHANGED <<queue, notify, last>>
    /\ UNCHANGED <<wvars, convars>>

NoNode == [timestamp |-> 0, socket_id |-> 0]

Init ==
    /\ queue = << >>
    /\ notify = FALSE
    /\ now = start_time
    /\ last = NoCall
    /\ socket_refs = [id \in Sockets |-> 0]
    /\ registry = [id \in Sockets |-> 1]
    /\ wpc = "peek"
    /\ wnode = NoNode
    /\ chan = 0
    /\ spc = "recv"
    /\ status = "Init"
    /\ cpc = "new_socket"
    /\ addrs = << >>
    /\ idx = 0
    /\ last_err = "None"
    /\ connected = FALSE
    /\ tried = << >>
    /\ cstatus = "Init"
    /\ cres = "none"
    /\ rcv_avail = 0
    /\ rtask = "idle"
    /\ rret = "none"
    /\ rnew = 0
    /\ rwait = 0
    /\ raced = FALSE
    /\ snd_used = 0
    /\ wtask = "idle"
    /\ wret = "none"
    /\ wwait = 0
    /\ ftask = "idle"
    /\ fret = "none"
    /\ fnew = 0
    /\ fwait = 0
    /\ stask = "idle"
    /\ sret = "none"
    /\ cnew = 0
    /\ crun = 0
    /\ kpc = "new"
    /\ pkt = << >>
    /\ raw = << >>
    /\ mangled = "none"
    /\ res = << >>
    /\ again = << >>
    /\ lock = NoTask
    /\ tpc = [c \in Callers |-> "idle"]
    /\ targ = [c \in Callers |-> NoArgs] /\ removed = {}

Next ==
    \/ \E ts \in Times, id \in Sockets : Insert(ts, id)
    \/ \E id \in Sockets, reschedule \in BOOLEAN : Update(id, reschedule)
    \/ \E id \in Sockets : Remove(id)
    \/ Tick

\* The calls of the queue, one at a time.
Spec == Init /\ [][Next]_vars

\* ----------------------------------------------------------------- worker
\* get_socket: a cached Weak is upgraded (and yields nothing once its socket is
\* released); without a cache entry the registry is asked and the answer cached.
\* The socket object found (0: none) and the cache afterwards.
get_socket(refs, reg, id) ==
    IF refs[id] # 0
    THEN [socket |-> IF reg[id] = refs[id] THEN refs[id] ELSE 0, refs |-> refs]
    ELSE IF reg[id] # 0
         THEN [socket |-> reg[id], refs |-> [refs EXCEPT ![id] = reg[id]]]
         ELSE [socket |-> 0, refs |-> refs]

\* node.timestamp <= Instant::now()
Due_Always(node, t) == TRUE
Due(node, t) == node.timestamp <= t

\* The head of the loop, under the lock: pop the head when it is due, else note
\* its timestamp, else note that the heap is empty.
WorkerPeek ==
    /\ wpc = "peek"
    /\ IF Len(queue) > 0
       THEN IF Due(HeapPeek(queue), now)
            THEN /\ wnode' = HeapPeek(queue)
                 /\ queue' = HeapPop(queue)
                 /\ wpc' = "get_socket"
            ELSE /\ wnode' = [timestamp |-> HeapPeek(queue).timestamp, socket_id |-> 0]
                 /\ wpc' = "select"
                 /\ UNCHANGED queue
       ELSE /\ wnode' = NoNode
            /\ wpc' = "notified"
            /\ UNCHANGED queue
    /\ UNCHANGED <<notify, now, last, socket_refs, registry, chan, spc, convars>>

\* Ok(node): resolve the socket; an unresolved one ends the iteration.
WorkerGetSocket ==
    /\ wpc = "get_socket"
    /\ LET g == get_socket(socket_refs, registry, wnode.socket_id) IN
       /\ socket_refs' = g.refs
       /\ wpc' = IF g.socket # 0 THEN "next_data_packets" ELSE "peek"
       /\ wnode' = IF g.socket # 0 THEN wnode ELSE NoNode
    /\ UNCHANGED <<queue, notify, now, last, registry, chan, spc, convars>>

\* next_data_packets yields a batch and the next instant: the socket is
\* inserted again, and the batch goes to the channel next.
WorkerBatch(ts) ==
    /\ wpc = "next_data_packets"
    /\ Apply(insert(queue, ts, wnode.socket_id))
    /\ wpc' = "tx_send"
    /\ UNCHANGED <<now, last, socket_refs, registry, wnode, chan, spc, convars>>

\* next_data_packets yields nothing: the iteration ends.
WorkerNoBatch ==
    /\ wpc = "next_data_packets"
    /\ wpc' = "peek"
    /\ wnode' = NoNode
    /\ UNCHANGED <<queue, notify, now, last, socket_refs, registry, chan, spc, convars>>

\* next_data_packets fails: the ? operator returns the error from worker.
WorkerError ==
    /\ wpc = "next_data_packets"
    /\ wpc' = "returned"
    /\ wnode' = NoNode
    /\ UNCHANGED <<queue, notify, now, last, socket_refs, registry, chan, spc, convars>>

\* whether the receiving half of the channel is gone
RxDropped == spc = "panicked"

\* tx.send(..).await.unwrap(): waits while the channel is full, panics when the
\* receiver is gone.
ChannelHasRoom_NoBound == TRUE
ChannelHasRoom == chan < TOKIO_CHANNEL_CAPACITY

WorkerSend ==
    /\ wpc = "tx_send"
    /\ wnode' = NoNode
    /\ IF RxDropped
       THEN wpc' = "panicked" /\ UNCHANGED chan
       ELSE /\ ChannelHasRoom
            /\ chan' = chan + 1
            /\ wpc' = "peek"
    /\ UNCHANGED <<queue, notify, now, last, socket_refs, registry, spc, convars>>

\* select!: the head's instant is reached
WorkerTimer ==
    /\ wpc = "select"
    /\ wnode.timestamp <= now
    /\ wpc' = "peek"
    /\ wnode' = NoNode
    /\ UNCHANGED <<queue, notify, now, last, socket_refs, registry, chan, spc, convars>>

\* notified() completes by taking the permit, in select! and in the empty case
WorkerNotified ==
    /\ wpc \in {"select", "notified"}
    /\ notify
    /\ notify' = FALSE
    /\ wpc' = "peek"
    /\ wnode' = NoNode
    /\ UNCHANGED <<queue, now, last, socket_refs, registry, chan, spc, convars>>

Worker ==
    \/ WorkerPeek
    \/ WorkerGetSocket
    \/ \E ts \in Times : ts >= now /\ WorkerBatch(ts)
    \/ WorkerNoBatch
    \/ WorkerError
    \/ WorkerSend
    \/ WorkerTimer
    \/ WorkerNotified

\* ------------------------------------------------------- UDP sender task
TxDropped == wpc \in {"returned", "panicked"}

\* rx.recv(): a batch, or None once the sender half is dropped and nothing is left
SenderRecv ==
    /\ spc = "recv"
    /\ IF chan > 0
       THEN chan' = chan - 1 /\ spc' = "send_data_packets"
       ELSE TxDropped /\ spc' = "finished" /\ UNCHANGED chan
    /\ UNCHANGED <<queue, notify, now, last, socket_refs, registry, wpc, wnode, convars>>

SenderSent ==
    /\ spc = "send_data_packets"
    /\ spc' = "recv"
    /\ UNCHANGED <<queue, notify, now, last, socket_refs, registry, wpc, wnode, chan, convars>>

\* send_data_packets fails: expect panics, the task ends and drops the receiver
\* with the batches still queued
SenderFailed ==
    /\ spc = "send_data_packets"
    /\ spc' = "panicked"
    /\ chan' = 0
    /\ UNCHANGED <<queue, notify, now, last, socket_refs, registry, wpc, wnode, convars>>

Sender == SenderRecv \/ SenderSent \/ SenderFailed

\* ---------------------------------------------------------- other tasks
\* update and remove called by the sockets' tasks
CallUpdate(id, reschedule) ==
    /\ Apply(update(queue, id, reschedule))
    /\ UNCHANGED <<now, last>>
    /\ UNCHANGED <<wvars, convars>>

CallRemove(id) ==
    /\ queue' = remove(queue, id)
    /\ UNCHANGED <<notify, now, last>>
    /\ UNCHANGED <<wvars, convars>>

\* the registry lets go of a socket
Release(id) ==
    /\ registry[id] # 0
    /\ registry' = [registry EXCEPT ![id] = 0]
    /\ UNCHANGED <<queue, notify, now, last, socket_refs, wpc, wnode, chan, spc, convars>>

Others ==
    \/ \E id \in Sockets, reschedule \in BOOLEAN : CallUpdate(id, reschedule)
    \/ \E id \in Sockets : CallRemove(id)
    \/ \E id \in Sockets : Release(id)

WorkerNext == Worker \/ Sender \/ Others \/ Tick

\* The worker, the sender task and the tasks that call the queue, interleaved.
WorkerSpec == Init /\ [][WorkerNext]_vars

\* The runtime polls a task that can make progress; time passes.
FairWorkerSpec ==
    WorkerSpec /\ WF_vars(Worker) /\ WF_vars(Sender) /\ WF_vars(Tick)

\* ------------------------------------------------- the heap's mutex
\* The operations once more, statement by statement: every queue.lock() and
\* every drop of the guard is a step, so that tasks interleave between the
\* critical sections as they do in the program.
MaxBatches == 1

\* queue.lock(): the mutex is taken when it is free; a task that asks for it
\* while another, or itself, holds it waits
CanLock == lock = NoTask

\* the holder after the guard has been dropped
Unlocked == NoTask

\* the holder once the condition of update's second if is evaluated: the guard
\* is a temporary of the condition and is dropped before either block runs
AfterCondition_Kept(holder) == holder
AfterCondition(holder) == NoTask

wrest == <<socket_refs, registry, chan, spc>>
lrest == <<now, last, cvars, iovars, kvars, removed>>

\* --- the calling tasks
\* some task is inside a call of update for id
UpdateInFlight(id) == \E c \in Callers : targ[c].op = "update" /\ targ[c].socket_id = id

\* a task calls update(id, reschedule): with reschedule the first statement is
\* let mut sockets = self.queue.lock().unwrap(), without it the condition of
\* the second if, which locks as well
UpdateCall(c, id, reschedule) ==
    /\ tpc[c] = "idle"
    /\ CanLock
    /\ lock' = CallerTask(c)
    /\ targ' = [targ EXCEPT ![c] = [op |-> "update", socket_id |-> id, reschedule |-> reschedule]]
    /\ tpc' = [tpc EXCEPT ![c] = IF reschedule THEN "update_head" ELSE "update_any"]
    /\ removed' = removed \ {id}
    /\ UNCHANGED <<queue, notify, wpc, wnode, wrest, now, last, cvars, iovars, kvars>>

\* a task calls remove(id): let mut sockets = self.queue.lock().unwrap()
RemoveCall(c, id) ==
    /\ tpc[c] = "idle"
    /\ CanLock
    /\ lock' = CallerTask(c)
    /\ targ' = [targ EXCEPT ![c] = [op |-> "remove", socket_id |-> id, reschedule |-> FALSE]]
    /\ tpc' = [tpc EXCEPT ![c] = "remove_body"]
    /\ UNCHANGED <<queue, notify, wpc, wnode, wrest, lrest>>

\* update, under the first guard: a head of this socket is moved to start_time,
\* the worker signalled and update returns; else the block ends.  The guard is
\* dropped either way.
UpdateHead(c) ==
    /\ tpc[c] = "update_head"
    /\ IF UpdateHeadIsMine(queue, targ[c].socket_id, TRUE)
       THEN /\ Apply(update_head(queue))
            /\ tpc' = [tpc EXCEPT ![c] = "idle"]
            /\ targ' = [targ EXCEPT ![c] = NoArgs]
       ELSE /\ tpc' = [tpc EXCEPT ![c] = "update_lock_any"]
            /\ UNCHANGED <<queue, notify, targ>>
    /\ lock' = Unlocked
    /\ UNCHANGED <<wpc, wnode, wrest, lrest>>

\* update, the condition of the second if: self.queue.lock().unwrap()
UpdateLockAny(c) ==
    /\ tpc[c] = "update_lock_any"
    /\ CanLock
    /\ lock' = CallerTask(c)
    /\ tpc' = [tpc EXCEPT ![c] = "update_any"]
    /\ UNCHANGED <<queue, notify, targ, wpc, wnode, wrest, lrest>>

\* update, .iter().any(..) and the branch: insert when absent; remove, then
\* insert, with reschedule; else update returns
UpdateAny(c) ==
    /\ tpc[c] = "update_any"
    /\ lock' = AfterCondition(lock)
    /\ IF ~HasEntry(queue, targ[c].socket_id)
       THEN tpc' = [tpc EXCEPT ![c] = "insert_lock"] /\ UNCHANGED targ
       ELSE IF targ[c].reschedule
            THEN tpc' = [tpc EXCEPT ![c] = "remove_lock"] /\ UNCHANGED targ
            ELSE tpc' = [tpc EXCEPT ![c] = "idle"] /\ targ' = [targ EXCEPT ![c] = NoArgs]
    /\ UNCHANGED <<queue, notify, wpc, wnode, wrest, lrest>>

\* update calls remove: let mut sockets = self.queue.lock().unwrap()
RemoveLock(c) ==
    /\ tpc[c] = "remove_lock"
    /\ CanLock
    /\ lock' = CallerTask(c)
    /\ tpc' = [tpc EXCEPT ![c] = "remove_body"]
    /\ UNCHANGED <<queue, notify, targ, wpc, wnode, wrest, lrest>>

\* remove, under the guard: the heap is collected again; the guard is dropped
\* when remove returns, to its caller or into update's insert
RemoveBody(c) ==
    /\ tpc[c] = "remove_body"
    /\ queue' = remove(queue, targ[c].socket_id)
    /\ lock' = Unlocked
    /\ IF targ[c].op = "update"
       THEN tpc' = [tpc EXCEPT ![c] = "insert_lock"] /\ UNCHANGED targ
       ELSE tpc' = [tpc EXCEPT ![c] = "idle"] /\ targ' = [targ EXCEPT ![c] = NoArgs]
    /\ removed' = IF targ[c].op = "remove" /\ ~UpdateInFlight(targ[c].socket_id)
                  THEN removed \cup {targ[c].socket_id} ELSE removed
    /\ UNCHANGED <<notify, wpc, wnode, wrest, now, last, cvars, iovars, kvars>>

\* update calls insert: let mut sockets = self.queue.lock().unwrap()
InsertLock(c) ==
    /\ tpc[c] = "insert_lock"
    /\ CanLock
    /\ lock' = CallerTask(c)
    /\ tpc' = [tpc EXCEPT ![c] = "insert_body"]
    /\ UNCHANGED <<queue, notify, targ, wpc, wnode, wrest, lrest>>

\* insert, under the guard: push, peek, notify_one; the guard is dropped when
\* insert returns
InsertBody(c) ==
    /\ tpc[c] = "insert_body"
    /\ Apply(insert(queue, start_time, targ[c].socket_id))
    /\ lock' = Unlocked
    /\ tpc' = [tpc EXCEPT ![c] = "idle"]
    /\ targ' = [targ EXCEPT ![c] = NoArgs]
    /\ UNCHANGED <<wpc, wnode, wrest, lrest>>

\* --- the worker
\* the head of the loop: let mut sockets = self.queue.lock().unwrap()
WorkerLock ==
    /\ wpc = "peek"
    /\ CanLock
    /\ lock' = WorkerTask
    /\ wpc' = "peek_locked"
    /\ UNCHANGED <<queue, notify, tpc, targ, wnode, wrest, lrest>>

\* under the guard: peek, and pop when the head is due; the guard is dropped
\* at the end of the block
WorkerPeekLocked ==
    /\ wpc = "peek_locked"
    /\ IF Len(queue) > 0
       THEN IF Due(HeapPeek(queue), now)
            THEN /\ wnode' = HeapPeek(queue)
                 /\ queue' = HeapPop(queue)
                 /\ wpc' = "get_socket"
            ELSE /\ wnode' = [timestamp |-> HeapPeek(queue).timestamp, socket_id |-> 0]
                 /\ wpc' = "select"
                 /\ UNCHANGED queue
       ELSE /\ wnode' = NoNode
            /\ wpc' = "notified"
            /\ UNCHANGED queue
    /\ lock' = Unlocked
    /\ UNCHANGED <<notify, tpc, targ, wrest, lrest>>

\* next_data_packets yields a batch and the instant ts: self.insert(ts, id) is next
WorkerYields(ts) ==
    /\ wpc = "next_data_packets"
    /\ chan < MaxBatches
    /\ wnode' = SendQueueNode(ts, wnode.socket_id)
    /\ wpc' = "insert_lock"
    /\ UNCHANGED <<queue, notify, lock, tpc, targ, wrest, lrest>>

\* the worker's insert: let mut sockets = self.queue.lock().unwrap()
WorkerInsertLock ==
    /\ wpc = "insert_lock"
    /\ CanLock
    /\ lock' = WorkerTask
    /\ wpc' = "insert_body"
    /\ UNCHANGED <<queue, notify, tpc, targ, wnode, wrest, lrest>>

\* the worker's insert, under the guard: push, peek, notify_one; then tx.send
WorkerInsertBody ==
    /\ wpc = "insert_body"
    /\ Apply(insert(queue, wnode.timestamp, wnode.socket_id))
    /\ lock' = Unlocked
    /\ wpc' = "tx_send"
    /\ UNCHANGED <<tpc, targ, wnode, wrest, lrest>>

LockNext ==
    \/ \E c \in Callers, id \in Sockets, reschedule \in BOOLEAN : UpdateCall(c, id, reschedule)
    \/ \E c \in Callers, id \in Sockets : RemoveCall(c, id)
    \/ \E c \in Callers : UpdateHead(c)
    \/ \E c \in Callers : UpdateLockAny(c)
    \/ \E c \in Callers : UpdateAny(c)
    \/ \E c \in Callers : RemoveLock(c)
    \/ \E c \in Callers : RemoveBody(c)
    \/ \E c \in Callers : InsertLock(c)
    \/ \E c \in Callers : InsertBody(c)
    \/ WorkerLock
    \/ WorkerPeekLocked
    \/ WorkerGetSocket
    \/ \E ts \in Times : WorkerYields(ts)
    \/ WorkerNoBatch
    \/ WorkerInsertLock
    \/ WorkerInsertBody
    \/ WorkerSend
    \/ WorkerNotified

\* The worker and the calling tasks, interleaved between their lock sections.
LockSpec == Init /\ [][LockNext]_vars

\* The worker with tasks that call update only: no task calls remove or insert.
UpdateNext ==
    \/ \E c \in Callers, id \in Sockets, reschedule \in BOOLEAN : UpdateCall(c, id, reschedule)
    \/ \E c \in Callers : UpdateHead(c)
    \/ \E c \in Callers : UpdateLockAny(c)
    \/ \E c \in Callers : UpdateAny(c)
    \/ \E c \in Callers : RemoveLock(c)
    \/ \E c \in Callers : RemoveBody(c)
    \/ \E c \in Callers : InsertLock(c)
    \/ \E c \in Callers : InsertBody(c)
    \/ WorkerLock
    \/ WorkerPeekLocked
    \/ WorkerGetSocket
    \/ \E ts \in Times : WorkerYields(ts)
    \/ WorkerNoBatch
    \/ WorkerInsertLock
    \/ WorkerInsertBody
    \/ WorkerSend
    \/ WorkerNotified

UpdateSpec == Init /\ [][UpdateNext]_vars

\* ------------------------------------------------ the cache of get_socket
MaxGen == 2

\* a new socket is registered under an id that is free (objects are numbered)
Register(id) ==
    /\ registry[id] = 0
    /\ \E obj \in 2..MaxGen :
          /\ obj > socket_refs[id]
          /\ registry' = [registry EXCEPT ![id] = obj]
    /\ UNCHANGED <<queue, notify, now, last, socket_refs, wpc, wnode, chan, spc, convars>>

\* The worker servicing sockets that have nothing to send, while sockets are
\* released and registered and their tasks call update.
CacheNext ==
    \/ WorkerPeek
    \/ WorkerGetSocket
    \/ WorkerNoBatch
    \/ WorkerNotified
    \/ \E id \in Sockets : CallUpdate(id, FALSE)
    \/ \E id \in Sockets : Release(id)
    \/ \E id \in Sockets : Register(id)

CacheSpec == Init /\ [][CacheNext]_vars

\* ------------------------------------------- UdtConnection: connecting
MaxAddrs == 3

\* what socket.connect can answer for an endpoint
ConnectErrors == {"AddrNotAvailable", "ConnectionRefused"}
ConnectAnswers == {"Ok"} \cup ConnectErrors

SeqsUpTo(S, n) == UNION {[1..k -> S] : k \in 0..n}

sendvars == <<queue, notify, now, last, socket_refs, registry, wpc, wnode, chan, spc>>
othervars == <<sendvars, iovars, kvars, lvars>>

\* new_socket(..)?: the socket is made, or the error is returned
NewSocket ==
    /\ cpc = "new_socket"
    /\ \/ cpc' = "lookup_host" /\ UNCHANGED cres
       \/ cpc' = "done" /\ cres' = "NewSocketError"
    /\ UNCHANGED <<status, addrs, idx, last_err, connected, tried, cstatus>>
    /\ UNCHANGED othervars

\* lookup_host(addrs).await?: the endpoints in resolution order, or the error
LookupHost ==
    /\ cpc = "lookup_host"
    /\ \/ /\ \E a \in SeqsUpTo(ConnectAnswers, MaxAddrs) : addrs' = a
          /\ idx' = 1
          /\ cpc' = "for"
          /\ UNCHANGED cres
       \/ /\ cpc' = "done"
          /\ cres' = "LookupError"
          /\ UNCHANGED <<addrs, idx>>
    /\ UNCHANGED <<status, last_err, connected, tried, cstatus>>
    /\ UNCHANGED othervars

\* the for loop goes on to the next endpoint unless it broke out
LoopGoesOn_NoBreak(answer) == TRUE
LoopGoesOn(answer) == answer # "Ok"

\* last_err after an endpoint's answer
LastErr(err, answer) == IF answer = "Ok" THEN err ELSE answer

\* one turn of the for loop: socket.connect(addr, bind_addr); Ok sets connected
\* and breaks, an error is kept in last_err.  A socket whose connect succeeded
\* is handshaking.
ConnectAttempt ==
    /\ cpc = "for"
    /\ idx <= Len(addrs)
    /\ tried' = Append(tried, idx)
    /\ connected' = (connected \/ addrs[idx] = "Ok")
    /\ last_err' = LastErr(last_err, addrs[idx])
    /\ status' = IF addrs[idx] = "Ok" THEN "Connecting" ELSE status
    /\ IF LoopGoesOn(addrs[idx])
       THEN idx' = idx + 1 /\ UNCHANGED cpc
       ELSE cpc' = "connected?" /\ UNCHANGED idx
    /\ UNCHANGED <<addrs, cstatus, cres>>
    /\ UNCHANGED othervars

\* the endpoints are used up
LoopEnds ==
    /\ cpc = "for"
    /\ idx > Len(addrs)
    /\ cpc' = "connected?"
    /\ UNCHANGED <<status, addrs, idx, last_err, connected, tried, cstatus, cres>>
    /\ UNCHANGED othervars

\* if !connected: the last error, or InvalidInput when there was none
NotConnected ==
    /\ cpc = "connected?"
    /\ IF connected
       THEN cpc' = "wait_for_connection" /\ UNCHANGED cres
       ELSE /\ cpc' = "done"
            /\ cres' = IF last_err = "None" THEN "InvalidInput" ELSE last_err
    /\ UNCHANGED <<status, addrs, idx, last_err, connected, tried, cstatus>>
    /\ UNCHANGED othervars

\* loop { status = wait_for_connection().await; if status != Connecting { break } }
\* and then Ok(Self::new(socket))
WaitForConnection ==
    /\ cpc = "wait_for_connection"
    /\ cstatus' = status
    /\ IF status # "Connecting"
       THEN cpc' = "done" /\ cres' = "Connection"
       ELSE UNCHANGED <<cpc, cres>>
    /\ UNCHANGED <<status, addrs, idx, last_err, connected, tried>>
    /\ UNCHANGED othervars

\* the handshake ends: the peer answers, the deadline expires, or the socket is closed
HandshakeEnds ==
    /\ status = "Connecting"
    /\ status' \in {"Connected", "Broken", "Closed"}
    /\ UNCHANGED <<cpc, addrs, idx, last_err, connected, tried, cstatus, cres>>
    /\ UNCHANGED othervars

ConnectNext ==
    \/ NewSocket
    \/ LookupHost
    \/ ConnectAttempt
    \/ LoopEnds
    \/ NotConnected
    \/ WaitForConnection
    \/ HandshakeEnds

\* UdtConnection::connect, with the handshake going on beside it.
ConnectSpec == Init /\ [][ConnectNext]_vars

\* ---------------------------------------- UdtConnection: reading, writing
MaxRcv == 1
MaxSndBuf == 2
MaxWaiters == 2

\* a connection whose socket is connected (UdtConnection::new)
IoInit ==
    /\ queue = << >> /\ notify = FALSE /\ now = start_time /\ last = NoCall
    /\ socket_refs = [id \in Sockets |-> 0] /\ registry = [id \in Sockets |-> 1]
    /\ wpc = "peek" /\ wnode = NoNode /\ chan = 0 /\ spc = "recv"
    /\ status = "Connected"
    /\ cpc = "new_socket" /\ addrs = << >> /\ idx = 0 /\ last_err = "None"
    /\ connected = FALSE /\ tried = << >> /\ cstatus = "Init" /\ cres = "none"
    /\ rcv_avail = 0 /\ rtask = "idle" /\ rret = "none" /\ rnew = 0 /\ rwait = 0
    /\ raced = FALSE
    /\ snd_used = 0 /\ wtask = "idle" /\ wret = "none" /\ wwait = 0
    /\ ftask = "idle" /\ fret = "none" /\ fnew = 0 /\ fwait = 0
    /\ stask = "idle" /\ sret = "none" /\ cnew = 0 /\ crun = 0
    /\ kpc = "new" /\ pkt = << >> /\ raw = << >> /\ mangled = "none"
    /\ res = << >> /\ again = << >>
    /\ lock = NoTask /\ tpc = [c \in Callers |-> "idle"] /\ targ = [c \in Callers |-> NoArgs] /\ removed = {}

Ended == status \in {"Broken", "Closed"}

\* socket.poll_recv: data, or the end of a closed socket, or an error on a broken
\* one; Pending while there is nothing to read
poll_recv ==
    IF rcv_avail > 0 THEN "Ready(Ok)"
    ELSE IF status = "Closed" THEN "Ready(Ok)"
    ELSE IF status = "Broken" THEN "Ready(Err)"
    ELSE "Pending"

\* what wait_for_data_to_read waits for
DataToRead == rcv_avail > 0 \/ Ended

\* the tasks spawned after one more Pending
Spawned_None(n) == n
Spawned(n) == n + 1

\* poll_read: the answer of poll_recv; on Pending a task is spawned that waits
\* for data to read and then wakes the reader
PollRead ==
    /\ rtask \in {"idle", "woken"}
    /\ rret' = IF poll_recv = "Pending" THEN "Pending" ELSE poll_recv
    /\ IF poll_recv = "Pending"
       THEN /\ rnew + rwait < MaxWaiters
            /\ rnew' = Spawned(rnew)
            /\ rtask' = "pending"
            /\ raced' = FALSE
            /\ UNCHANGED rcv_avail
       ELSE /\ rcv_avail' = 0
            /\ rtask' = "idle"
            /\ UNCHANGED <<rnew, raced>>
    /\ UNCHANGED <<status, rwait, snd_used, wtask, wret, wwait>>
    /\ UNCHANGED <<sendvars, cpc, addrs, idx, last_err, connected, tried, cstatus, cres, kvars, lvars>>
    /\ UNCHANGED <<flvars, shvars>>

\* a spawned task is polled for the first time: wait_for_data_to_read begins
ReadWaiterStarts ==
    /\ rnew > 0
    /\ rnew' = rnew - 1
    /\ rwait' = rwait + 1
    /\ UNCHANGED <<status, rcv_avail, rtask, rret, raced, snd_used, wtask, wret, wwait>>
    /\ UNCHANGED <<sendvars, cpc, addrs, idx, last_err, connected, tried, cstatus, cres, kvars, lvars>>
    /\ UNCHANGED <<flvars, shvars>>

\* waker.wake(): a pending task is made runnable
Wake(task) == IF task = "pending" THEN "woken" ELSE task

\* wait_for_data_to_read returns since there is data to read or the socket has
\* ended; the spawned task wakes the reader and ends
ReadWaiterWakes ==
    /\ rwait > 0
    /\ DataToRead
    /\ rwait' = rwait - 1
    /\ rtask' = Wake(rtask)
    /\ UNCHANGED <<status, rcv_avail, rret, rnew, raced, snd_used, wtask, wret, wwait>>
    /\ UNCHANGED <<sendvars, cpc, addrs, idx, last_err, connected, tried, cstatus, cres, kvars, lvars>>
    /\ UNCHANGED <<flvars, shvars>>

\* wait_for_data_to_read returns for no reason (a spurious wake)
ReadWaiterSpurious ==
    /\ rwait > 0
    /\ ~DataToRead
    /\ rwait' = rwait - 1
    /\ rtask' = Wake(rtask)
    /\ UNCHANGED <<status, rcv_avail, rret, rnew, raced, snd_used, wtask, wret, wwait>>
    /\ UNCHANGED <<sendvars, cpc, addrs, idx, last_err, connected, tried, cstatus, cres, kvars, lvars>>
    /\ UNCHANGED <<flvars, shvars>>

\* a data packet arrives
DataArrives ==
    /\ ~Ended
    /\ rcv_avail < MaxRcv
    /\ rcv_avail' = rcv_avail + 1
    /\ raced' = (raced \/ (rtask = "pending" /\ rnew > 0))
    /\ UNCHANGED <<status, rtask, rret, rnew, rwait, snd_used, wtask, wret, wwait>>
    /\ UNCHANGED <<sendvars, cpc, addrs, idx, last_err, connected, tried, cstatus, cres, kvars, lvars>>
    /\ UNCHANGED <<flvars, shvars>>

\* socket.send: the bytes go to the send buffer; OutOfMemory when it is full
socket_send ==
    IF Ended THEN "ConnectionReset"
    ELSE IF snd_used >= MaxSndBuf THEN "OutOfMemory"
    ELSE "Ok"

Buffered(answer) == IF answer = "Ok" THEN snd_used + 1 ELSE snd_used

\* UdtConnection::send: socket.send's answer is the caller's
ConnSend ==
    /\ wret' = socket_send
    /\ snd_used' = Buffered(socket_send)
    /\ UNCHANGED <<status, rcv_avail, rtask, rret, rnew, rwait, raced, wtask, wwait>>
    /\ UNCHANGED <<sendvars, cpc, addrs, idx, last_err, connected, tried, cstatus, cres, kvars, lvars>>
    /\ UNCHANGED <<flvars, shvars>>

\* poll_write: Ready(Ok(len)) when socket.send took the bytes; on OutOfMemory a
\* task is spawned that waits for the next ACK and wakes the writer, and the
\* answer is Pending; any other error is Ready(Err)
PollWrite ==
    /\ wtask \in {"idle", "woken"}
    /\ snd_used' = Buffered(socket_send)
    /\ IF socket_send = "Ok"
       THEN wret' = "Ready(Ok)" /\ wtask' = "idle" /\ UNCHANGED wwait
       ELSE IF socket_send = "OutOfMemory"
            THEN /\ wwait < MaxWaiters
                 /\ wwait' = wwait + 1
                 /\ wret' = "Pending"
                 /\ wtask' = "pending"
            ELSE wret' = "Ready(Err)" /\ wtask' = "idle" /\ UNCHANGED wwait
    /\ UNCHANGED <<status, rcv_avail, rtask, rret, rnew, rwait, raced>>
    /\ UNCHANGED <<sendvars, cpc, addrs, idx, last_err, connected, tried, cstatus, cres, kvars, lvars>>
    /\ UNCHANGED <<flvars, shvars>>

\* an ACK frees a packet of the send buffer; the tasks that wait for the next
\* ACK wake the writer and end
AckArrives ==
    /\ ~Ended
    /\ snd_used > 0
    /\ snd_used' = snd_used - 1
    /\ wwait' = 0
    /\ wtask' = IF wwait > 0 THEN Wake(wtask) ELSE wtask
    /\ fwait' = 0
    /\ ftask' = IF fwait > 0 THEN Wake(ftask) ELSE ftask
    /\ UNCHANGED <<status, rcv_avail, rtask, rret, rnew, rwait, raced, wret>>
    /\ UNCHANGED <<sendvars, cpc, addrs, idx, last_err, connected, tried, cstatus, cres, kvars, lvars>>
    /\ UNCHANGED <<fret, fnew, shvars>>

\* the socket is closed, or found broken; whoever waits is woken
SocketEnds ==
    /\ status = "Connected"
    /\ status' \in {"Broken", "Closed"}
    /\ wwait' = 0
    /\ wtask' = IF wwait > 0 THEN Wake(wtask) ELSE wtask
    /\ fwait' = 0
    /\ ftask' = IF fwait > 0 THEN Wake(ftask) ELSE ftask
    /\ UNCHANGED <<rcv_avail, rtask, rret, rnew, rwait, raced, snd_used, wret>>
    /\ UNCHANGED <<sendvars, cpc, addrs, idx, last_err, connected, tried, cstatus, cres, kvars, lvars>>
    /\ UNCHANGED <<fret, fnew, shvars>>

\* ------------------------------------------------- poll_flush, poll_shutdown
\* socket.snd_buffer_is_empty
snd_buffer_is_empty == snd_used = 0

\* poll_flush's answer
FlushAnswer_AlwaysReady(empty) == "Ready(Ok)"
FlushAnswer(empty) == IF empty THEN "Ready(Ok)" ELSE "Pending"

\* poll_flush: Ready(Ok) when the send buffer is empty; otherwise a task is
\* spawned that waits for the next ACK or an empty send buffer and then wakes
\* the flushing task, and the answer is Pending
PollFlush ==
    /\ ftask \in {"idle", "woken"}
    /\ fret' = FlushAnswer(snd_buffer_is_empty)
    /\ IF snd_buffer_is_empty
       THEN ftask' = "idle" /\ UNCHANGED fnew
       ELSE /\ fnew + fwait < MaxWaiters
            /\ fnew' = fnew + 1
            /\ ftask' = "pending"
    /\ UNCHANGED <<status, rcv_avail, rtask, rret, rnew, rwait, raced, snd_used, wtask, wret, wwait>>
    /\ UNCHANGED <<sendvars, cpc, addrs, idx, last_err, connected, tried, cstatus, cres, kvars, lvars>>
    /\ UNCHANGED <<fwait, shvars>>

\* a task spawned by poll_flush is polled for the first time:
\* wait_for_next_ack_or_empty_snd_buffer begins
FlushWaiterStarts ==
    /\ fnew > 0
    /\ fnew' = fnew - 1
    /\ fwait' = fwait + 1
    /\ UNCHANGED <<status, rcv_avail, rtask, rret, rnew, rwait, raced, snd_used, wtask, wret, wwait>>
    /\ UNCHANGED <<sendvars, cpc, addrs, idx, last_err, connected, tried, cstatus, cres, kvars, lvars>>
    /\ UNCHANGED <<ftask, fret, shvars>>

\* wait_for_next_ack_or_empty_snd_buffer returns since the send buffer is empty
\* (the next ACK is AckArrives); the spawned task wakes the flushing task and ends
FlushWaiterWakes ==
    /\ fwait > 0
    /\ snd_buffer_is_empty
    /\ fwait' = fwait - 1
    /\ ftask' = Wake(ftask)
    /\ UNCHANGED <<status, rcv_avail, rtask, rret, rnew, rwait, raced, snd_used, wtask, wret, wwait>>
    /\ UNCHANGED <<sendvars, cpc, addrs, idx, last_err, connected, tried, cstatus, cres, kvars, lvars>>
    /\ UNCHANGED <<fret, fnew, shvars>>

\* poll_shutdown's test: the socket's status is Closed
ShutdownDone_AnyEnd(st) == st \in {"Closed", "Broken"}
ShutdownDone(st) == st = "Closed"

\* poll_shutdown: Ready(Ok) when the status is Closed; otherwise a task is
\* spawned that runs socket.close() and then wakes the closing task, and the
\* answer is Pending
PollShutdown ==
    /\ stask \in {"idle", "woken"}
    /\ IF ShutdownDone(status)
       THEN sret' = "Ready(Ok)" /\ stask' = "idle" /\ UNCHANGED cnew
       ELSE /\ cnew + crun < MaxWaiters
            /\ cnew' = cnew + 1
            /\ sret' = "Pending"
            /\ stask' = "pending"
    /\ UNCHANGED <<status, rcv_avail, rtask, rret, rnew, rwait, raced, snd_used, wtask, wret, wwait>>
    /\ UNCHANGED <<sendvars, cpc, addrs, idx, last_err, connected, tried, cstatus, cres, kvars, lvars>>
    /\ UNCHANGED <<crun, flvars>>

\* a spawned task calls socket.close(): a socket that is connected starts its
\* graceful shutdown (Shutdown packet, send buffer drained up to a deadline)
CloseStarts ==
    /\ cnew > 0
    /\ cnew' = cnew - 1
    /\ crun' = crun + 1
    /\ status' = IF status = "Connected" THEN "Closing" ELSE status
    /\ UNCHANGED <<rcv_avail, rtask, rret, rnew, rwait, raced, snd_used, wtask, wret, wwait>>
    /\ UNCHANGED <<sendvars, cpc, addrs, idx, last_err, connected, tried, cstatus, cres, kvars, lvars>>
    /\ UNCHANGED <<stask, sret, flvars>>

\* socket.close() returns with the socket Closed; whoever waits on the socket
\* is woken, and the spawned task wakes the closing task and ends
CloseEnds ==
    /\ crun > 0
    /\ crun' = crun - 1
    /\ status' = "Closed"
    /\ stask' = Wake(stask)
    /\ wwait' = 0
    /\ wtask' = IF wwait > 0 THEN Wake(wtask) ELSE wtask
    /\ fwait' = 0
    /\ ftask' = IF fwait > 0 THEN Wake(ftask) ELSE ftask
    /\ UNCHANGED <<rcv_avail, rtask, rret, rnew, rwait, raced, snd_used, wret>>
    /\ UNCHANGED <<sendvars, cpc, addrs, idx, last_err, connected, tried, cstatus, cres, kvars, lvars>>
    /\ UNCHANGED <<sret, cnew, fret, fnew>>

IoNext ==
    \/ PollRead
    \/ ReadWaiterStarts
    \/ ReadWaiterWakes
    \/ ReadWaiterSpurious
    \/ DataArrives
    \/ ConnSend
    \/ PollWrite
    \/ AckArrives
    \/ SocketEnds
    \/ PollFlush
    \/ FlushWaiterStarts
    \/ FlushWaiterWakes
    \/ PollShutdown
    \/ CloseStarts
    \/ CloseEnds

\* Reading and writing through a connection, with the socket's events beside them.
IoSpec == IoInit /\ [][IoNext]_vars

\* The runtime polls a spawned task that can go on.
FairIoSpec == IoSpec /\ WF_vars(ReadWaiterStarts) /\ WF_vars(ReadWaiterWakes)

\* The closing task polls again when it is woken, and the tasks it spawned run.
FairCloseSpec ==
    IoSpec /\ WF_vars(PollShutdown) /\ WF_vars(CloseStarts) /\ WF_vars(CloseEnds)

\* The flushing task polls again when it is woken, and the tasks it spawned run.
FairFlushSpec ==
    IoSpec /\ WF_vars(PollFlush) /\ WF_vars(FlushWaiterStarts) /\ WF_vars(FlushWaiterWakes)

\* ------------------------------------------------------------ packet codec
\* A u8 is 0..255 and a datagram a sequence of u8.  A u16 is 0..65535.  A u32
\* is kept as the pair <<high, low>> of its 16-bit halves, since TLC's integers
\* stop at 2^31 - 1; an i32 is an integer.  raw[a..b] of the source is
\* Slice(raw, a, b).
Slice(buf, a, b) == SubSeq(buf, a + 1, b)

U32(hi, lo) == <<hi, lo>>

\* u16::to_be_bytes, u16::from_be_bytes
u16_to_be_bytes(v) == <<v \div 256, v % 256>>
u16_from_be_bytes(b) == b[1] * 256 + b[2]

\* u32::to_be_bytes, u32::from_be_bytes
u32_to_be_bytes(v) == u16_to_be_bytes(v[1]) \o u16_to_be_bytes(v[2])
u32_from_be_bytes(b) == U32(u16_from_be_bytes(Slice(b, 0, 2)), u16_from_be_bytes(Slice(b, 2, 4)))

\* i32::to_be_bytes, i32::from_be_bytes: two's complement
i32_to_be_bytes(v) ==
    IF v >= 0
    THEN u32_to_be_bytes(U32(v \div 65536, v % 65536))
    ELSE LET w == (v + 2147483647) + 1
         IN  u32_to_be_bytes(U32(32768 + (w \div 65536), w % 65536))
i32_from_be_bytes(b) ==
    LET v == u32_from_be_bytes(b)
    IN  IF v[1] < 32768
        THEN v[1] * 65536 + v[2]
        ELSE (((v[1] - 32768) * 65536 + v[2]) - 2147483647) - 1

\* the bytes of a list of u32, one after the other (flat_map to_be_bytes)
RECURSIVE FlatBytes(_)
FlatBytes(list) ==
    IF list = << >> THEN << >>
    ELSE u32_to_be_bytes(Head(list)) \o FlatBytes(Tail(list))

\* get_u32 of the deserialize functions: the i-th u32 of raw
get_u32(buf, i) == u32_from_be_bytes(Slice(buf, i * 4, (i + 1) * 4))

\* SeqNumber::from(u32) and SeqNumber::number: a sequence number has 31 bits
SeqNumber_from(v) == U32(v[1] % 32768, v[2])
SeqNumber_number(n) == n

\* SocketType as u32, and u32::try_into::<SocketType>
SocketType_as_u32(t) == IF t = "Stream" THEN U32(0, 0) ELSE U32(0, 1)
SocketType_try_from(v) ==
    IF v = U32(0, 0) THEN [ok |-> TRUE, val |-> "Stream"]
    ELSE IF v = U32(0, 1) THEN [ok |-> TRUE, val |-> "Datagram"]
    ELSE [ok |-> FALSE, err |-> "InvalidData"]

\* Result: Ok(v), Err(kind), and a panic (a slice index out of range)
Ok(v) == [ok |-> TRUE, val |-> v]
Err(kind) == [ok |-> FALSE, err |-> kind]
Panic == [ok |-> FALSE, err |-> "panic"]

\* common::ip_to_bytes: an IPv4 address in the first 4 bytes, zero-padded to
\* 16; an IPv6 address in all 16
Zeros(n) == [i \in 1..n |-> 0]
ip_to_bytes(ip) == IF ip.family = "V4" THEN ip.octets \o Zeros(12) ELSE ip.octets

\* HandShakeInfo::serialize
HandShakeInfo_serialize(hs) ==
    FlatBytes(<<hs.udt_version, SocketType_as_u32(hs.socket_type),
                SeqNumber_number(hs.initial_seq_number),
                hs.max_packet_size, hs.max_window_size>>)
    \o i32_to_be_bytes(hs.connection_type)
    \o u32_to_be_bytes(hs.socket_id)
    \o u32_to_be_bytes(hs.syn_cookie)
    \o ip_to_bytes(hs.ip_address)

\* the address HandShakeInfo::deserialize reads: IPv4 when raw[36..48] is all zero
AllZero(b) == \A i \in 1..Len(b) : b[i] = 0
HandShakeAddr(buf) ==
    IF AllZero(Slice(buf, 36, 48))
    THEN [family |-> "V4", octets |-> Slice(buf, 32, 36)]
    ELSE [family |-> "V6", octets |-> Slice(buf, 32, 48)]

\* HandShakeInfo::deserialize: raw[36..48] is sliced first and panics on a
\* short raw; an unknown socket type is the only error
HandShakeInfo_deserialize(buf) ==
    IF Len(buf) < 48 THEN Panic
    ELSE IF ~SocketType_try_from(get_u32(buf, 1)).ok
         THEN Err(SocketType_try_from(get_u32(buf, 1)).err)
    ELSE Ok([tag |-> "Handshake",
             udt_version |-> get_u32(buf, 0),
             socket_type |-> SocketType_try_from(get_u32(buf, 1)).val,
             initial_seq_number |-> SeqNumber_from(get_u32(buf, 2)),
             max_packet_size |-> get_u32(buf, 3),
             max_window_size |-> get_u32(buf, 4),
             connection_type |-> i32_from_be_bytes(Slice(buf, 20, 24)),
             socket_id |-> get_u32(buf, 6),
             syn_cookie |-> get_u32(buf, 7),
             ip_address |-> HandShakeAddr(buf)])

\* AckInfo: info is None (a light ACK) or Some(AckOptionalInfo)
None == [some |-> FALSE]
Some(v) == [some |-> TRUE, val |-> v]

\* AckInfo::serialize
AckInfo_serialize(ack) ==
    IF ~ack.info.some
    THEN u32_to_be_bytes(SeqNumber_number(ack.next_seq_number))
    ELSE FlatBytes(<<SeqNumber_number(ack.next_seq_number),
                     ack.info.val.rtt, ack.info.val.rtt_variance,
                     ack.info.val.available_buf_size,
                     ack.info.val.pack_recv_rate, ack.info.val.link_capacity>>)

\* AckInfo::deserialize: get_u32(0) first, a light ACK when raw.len() <= 4, else
\* get_u32(1) to get_u32(5); a get_u32 beyond raw panics
AckIsLight(buf) == Len(buf) <= 4
AckInfo_deserialize(buf) ==
    IF Len(buf) < 4 THEN Panic
    ELSE IF AckIsLight(buf)
         THEN Ok([tag |-> "Ack", next_seq_number |-> SeqNumber_from(get_u32(buf, 0)),
                  info |-> None])
    ELSE IF Len(buf) < 24 THEN Panic
    ELSE Ok([tag |-> "Ack", next_seq_number |-> SeqNumber_from(get_u32(buf, 0)),
             info |-> Some([rtt |-> get_u32(buf, 1),
                            rtt_variance |-> get_u32(buf, 2),
                            available_buf_size |-> get_u32(buf, 3),
                            pack_recv_rate |-> get_u32(buf, 4),
                            link_capacity |-> get_u32(buf, 5)])])

\* NakInfo::serialize
NakInfo_serialize(nak) == FlatBytes(nak.loss_info)

\* NakInfo::deserialize: the chunks of 4 bytes; a last chunk of fewer is skipped
RECURSIVE Chunks4(_)
Chunks4(buf) ==
    IF Len(buf) < 4 THEN << >>
    ELSE <<u32_from_be_bytes(Slice(buf, 0, 4))>> \o Chunks4(Slice(buf, 4, Len(buf)))
NakInfo_deserialize(buf) == Ok([tag |-> "Nak", loss_info |-> Chunks4(buf)])

\* DropRequestInfo::serialize
DropRequestInfo_serialize(drop) ==
    FlatBytes(<<SeqNumber_number(drop.first_seq_number),
                SeqNumber_number(drop.last_seq_number)>>)

\* DropRequestInfo::deserialize: get_u32(0) and get_u32(1)
DropRequestInfo_deserialize(buf) ==
    IF Len(buf) < 8 THEN Panic
    ELSE Ok([tag |-> "MsgDropRequest",
             first_seq_number |-> SeqNumber_from(get_u32(buf, 0)),
             last_seq_number |-> SeqNumber_from(get_u32(buf, 1))])

\* ControlPacketType::type_as_u15
type_as_u15_Ack2AsShutdown(t) ==
    CASE t.tag = "Handshake" -> 0
      [] t.tag = "KeepAlive" -> 1
      [] t.tag = "Ack" -> 2
      [] t.tag = "Nak" -> 3
      [] t.tag = "Shutdown" -> 5
      [] t.tag = "Ack2" -> 5
      [] t.tag = "MsgDropRequest" -> 7
      [] t.tag = "UserDefined" -> 32767
type_as_u15(t) ==
    CASE t.tag = "Handshake" -> 0
      [] t.tag = "KeepAlive" -> 1
      [] t.tag = "Ack" -> 2
      [] t.tag = "Nak" -> 3
      [] t.tag = "Shutdown" -> 5
      [] t.tag = "Ack2" -> 6
      [] t.tag = "MsgDropRequest" -> 7
      [] t.tag = "UserDefined" -> 32767

\* ControlPacketType::control_info_field
control_info_field(t) ==
    CASE t.tag = "Handshake" -> HandShakeInfo_serialize(t)
      [] t.tag = "Ack" -> AckInfo_serialize(t)
      [] t.tag = "Nak" -> NakInfo_serialize(t)
      [] t.tag = "MsgDropRequest" -> DropRequestInfo_serialize(t)
      [] OTHER -> << >>

\* ControlPacketType::deserialize: the type id is the first u16 & 0x7FFF, the
\* Control Information Field is raw[16..]
ControlPacketType_deserialize(buf) ==
    LET type_id == u16_from_be_bytes(Slice(buf, 0, 2)) % 32768
        cif == Slice(buf, 16, Len(buf))
    IN  CASE type_id = 0 -> HandShakeInfo_deserialize(cif)
          [] type_id = 1 -> Ok([tag |-> "KeepAlive"])
          [] type_id = 2 -> AckInfo_deserialize(cif)
          [] type_id = 3 -> NakInfo_deserialize(cif)
          [] type_id = 5 -> Ok([tag |-> "Shutdown"])
          [] type_id = 6 -> Ok([tag |-> "Ack2"])
          [] type_id = 7 -> DropRequestInfo_deserialize(cif)
          [] type_id = 32767 -> Ok([tag |-> "UserDefined"])
          [] OTHER -> Err("InvalidData")

\* UdtControlPacket::serialize
UdtControlPacket_serialize(p) ==
    u16_to_be_bytes(32768 + type_as_u15(p.packet_type))
    \o u16_to_be_bytes(p.reserved)
    \o u32_to_be_bytes(p.additional_info)
    \o u32_to_be_bytes(p.timestamp)
    \o u32_to_be_bytes(p.dest_socket_id)
    \o control_info_field(p.packet_type)

\* the length of a control packet's header
ControlHeaderLen == 16

\* UdtControlPacket::deserialize
UdtControlPacket_deserialize(buf) ==
    IF Len(buf) < ControlHeaderLen THEN Err("InvalidData")
    ELSE IF ~ControlPacketType_deserialize(buf).ok THEN ControlPacketType_deserialize(buf)
    ELSE Ok([kind |-> "Control",
             packet_type |-> ControlPacketType_deserialize(buf).val,
             reserved |-> u16_from_be_bytes(Slice(buf, 2, 4)),
             additional_info |-> u32_from_be_bytes(Slice(buf, 4, 8)),
             timestamp |-> u32_from_be_bytes(Slice(buf, 8, 12)),
             dest_socket_id |-> u32_from_be_bytes(Slice(buf, 12, 16))])

\* UdtDataPacket::deserialize: a header of 16 bytes, then the payload
UdtDataPacket_deserialize(buf) ==
    IF Len(buf) < 16 THEN Err("InvalidData")
    ELSE Ok([kind |-> "Data",
             seq_number |-> SeqNumber_from(get_u32(buf, 0)),
             payload |-> Slice(buf, 16, Len(buf))])

\* first_bit: (raw[0] >> 7) != 0
first_bit_Lowest(b) == b[1] % 2 # 0
first_bit(b) == b[1] \div 128 # 0

\* UdtPacket::deserialize: the first bit tells a control packet from a data packet
UdtPacket_deserialize(b) ==
    IF b = << >> THEN Err("InvalidData")
    ELSE IF first_bit(b)
         THEN UdtControlPacket_deserialize(b)
         ELSE UdtDataPacket_deserialize(b)

\* ------------------------------------------------- the codec at work
MaxNak == 2

\* the values the packets' fields are drawn from
Headers ==
    { [reserved |-> 0, additional_info |-> U32(0, 0), timestamp |-> U32(0, 0),
       dest_socket_id |-> U32(0, 0)],
      [reserved |-> 258, additional_info |-> U32(772, 1286), timestamp |-> U32(1800, 2314),
       dest_socket_id |-> U32(2828, 3342)],
      [reserved |-> 65535, additional_info |-> U32(65535, 65535),
       timestamp |-> U32(32768, 0), dest_socket_id |-> U32(65535, 65534)] }
SeqNumbers == {U32(0, 0), U32(32767, 65535)}
AckInfos ==
    { None,
      Some([rtt |-> U32(0, 100), rtt_variance |-> U32(0, 50),
            available_buf_size |-> U32(0, 8192), pack_recv_rate |-> U32(1, 2),
            link_capacity |-> U32(3, 4)]),
      Some([rtt |-> U32(65535, 65535), rtt_variance |-> U32(0, 0),
            available_buf_size |-> U32(32768, 1), pack_recv_rate |-> U32(0, 0),
            link_capacity |-> U32(65535, 0)]) }
LossEntries == {U32(32768, 5), U32(0, 7)}
LossLists == UNION { [1..n -> LossEntries] : n \in 0..MaxNak }
Addresses ==
    { [family |-> "V4", octets |-> <<192, 168, 1, 2>>],
      [family |-> "V4", octets |-> <<0, 0, 0, 0>>],
      [family |-> "V6", octets |-> <<32, 1, 13, 184, 0, 0, 0, 0, 0, 0, 0, 0, 0, 0, 0, 1>>],
      [family |-> "V6", octets |-> <<32, 1, 13, 184, 0, 0, 0, 0, 0, 0, 0, 0, 0, 0, 0, 0>>],
      [family |-> "V6", octets |-> <<0, 0, 0, 0, 0, 0, 0, 0, 0, 0, 0, 0, 0, 0, 0, 0>>] }
HandShakes ==
    { [tag |-> "Handshake", udt_version |-> sizes[1], socket_type |-> st,
       initial_seq_number |-> sizes[2], max_packet_size |-> sizes[3],
       max_window_size |-> sizes[4], connection_type |-> ct, socket_id |-> sizes[5],
       syn_cookie |-> sizes[6], ip_address |-> ip] :
         st \in {"Stream", "Datagram"}, ct \in {1, 0, -1, -2}, ip \in Addresses,
         sizes \in { <<U32(0, 4), U32(0, 0), U32(0, 1500), U32(0, 8192), U32(0, 9), U32(0, 0)>>,
                     <<U32(65535, 65535), U32(32767, 65535), U32(1, 2), U32(32768, 0),
                       U32(65535, 65535), U32(43981, 61185)>> } }
PacketTypes ==
    { [tag |-> t] : t \in {"KeepAlive", "Shutdown", "Ack2", "UserDefined"} }
    \cup { [tag |-> "Ack", next_seq_number |-> n, info |-> i] : n \in SeqNumbers, i \in AckInfos }
    \cup { [tag |-> "Nak", loss_info |-> l] : l \in LossLists }
    \cup { [tag |-> "MsgDropRequest", first_seq_number |-> f, last_seq_number |-> l] :
             f \in SeqNumbers, l \in SeqNumbers }
    \cup HandShakes
ControlPackets ==
    { [kind |-> "Control", packet_type |-> t, reserved |-> h.reserved,
       additional_info |-> h.additional_info, timestamp |-> h.timestamp,
       dest_socket_id |-> h.dest_socket_id] : t \in PacketTypes, h \in Headers }

\* type ids a datagram may carry, known and unknown
TypeIds == {0, 1, 2, 3, 4, 5, 6, 7, 8, 32766, 32767}

noncodec == <<sendvars, cvars, iovars, lvars>>

\* a control packet is built (new_handshake, new_ack, ...)
NewPacket ==
    /\ kpc = "new"
    /\ pkt' \in ControlPackets
    /\ kpc' = "built"
    /\ UNCHANGED <<raw, mangled, res, again, noncodec>>

\* UdtPacket::serialize of the control packet
Serialize ==
    /\ kpc = "built"
    /\ raw' = UdtControlPacket_serialize(pkt)
    /\ kpc' = "encoded"
    /\ UNCHANGED <<pkt, mangled, res, again, noncodec>>

\* the datagram arrives cut to its first n bytes
Truncate(n) ==
    /\ kpc = "encoded"
    /\ mangled = "none"
    /\ n < Len(raw)
    /\ raw' = Slice(raw, 0, n)
    /\ mangled' = "cut"
    /\ UNCHANGED <<kpc, pkt, res, again, noncodec>>

\* the datagram arrives with another type id in its first 16 bits
Retype(id) ==
    /\ kpc = "encoded"
    /\ mangled = "none"
    /\ u16_from_be_bytes(Slice(raw, 0, 2)) # 32768 + id
    /\ raw' = u16_to_be_bytes(32768 + id) \o Slice(raw, 2, Len(raw))
    /\ mangled' = "retyped"
    /\ UNCHANGED <<kpc, pkt, res, again, noncodec>>

\* the datagram, whole or cut, arrives with its first bit 0
ClearFirstBit ==
    /\ kpc = "encoded"
    /\ mangled \in {"none", "cut"}
    /\ raw # << >>
    /\ raw' = <<raw[1] - 128>> \o Slice(raw, 1, Len(raw))
    /\ mangled' = "data"
    /\ UNCHANGED <<kpc, pkt, res, again, noncodec>>

\* UdtPacket::deserialize of the datagram
Deserialize ==
    /\ kpc = "encoded"
    /\ res' = UdtPacket_deserialize(raw)
    /\ kpc' = "decoded"
    /\ UNCHANGED <<pkt, raw, mangled, again, noncodec>>

\* UdtPacket::serialize of the decoded control packet
Reserialize ==
    /\ kpc = "decoded"
    /\ res.ok
    /\ res.val.kind = "Control"
    /\ again' = UdtControlPacket_serialize(res.val)
    /\ kpc' = "done"
    /\ UNCHANGED <<pkt, raw, mangled, res, noncodec>>

CodecNext ==
    \/ NewPacket
    \/ Serialize
    \/ \E n \in 0..(ControlHeaderLen + 48) : Truncate(n)
    \/ \E id \in TypeIds : Retype(id)
    \/ ClearFirstBit
    \/ Deserialize
    \/ Reserialize

\* Control packets serialized, carried as datagrams and deserialized.
CodecSpec == Init /\ [][CodecNext]_vars

\* ------------------------------------------------------------------ claims
\* the number of heap entries of socket id
EntriesOf(data, id) == Cardinality(Entries(data, id))

\* some entry of id is due: its timestamp is not after the current time
DueEntry(data, id) ==
    \E i \in 1..Len(data) : data[i].socket_id = id /\ data[i].timestamp <= now

\* C1: inserting the same socket id twice with the same timestamp, with nothing
\* in between, leaves the heap with exactly one entry for that socket id.
C1_InsertTwiceOneEntry ==
    (last.op = "insert" /\ last.twice) => EntriesOf(queue, last.socket_id) = 1

\* C3: insert(ts, id) pushes the entry and signals the worker if and only if the
\* newly pushed entry is the head of the heap after the push; it does not signal
\* when the head is an older entry, also not an older entry of the same socket.
C3_InsertSignalsIffNewIsHead ==
    last.op = "insert" =>
        /\ Count(queue, SendQueueNode(last.timestamp, last.socket_id))
             = Count(last.pre, SendQueueNode(last.timestamp, last.socket_id)) + 1
        /\ Len(queue) = Len(last.pre) + 1
        /\ last.signal <=> (last.pos = 1)

\* what update(id, reschedule) leaves, apart from the signal: an entry of id
\* inserted and due when there was none; an entry of id that is due when there
\* was one and reschedule is set; the same heap and no signal otherwise.
UpdateLeaves ==
    /\ ~HasEntry(last.pre, last.socket_id) =>
          /\ EntriesOf(queue, last.socket_id) = 1
          /\ Len(queue) = Len(last.pre) + 1
          /\ DueEntry(queue, last.socket_id)
    /\ (HasEntry(last.pre, last.socket_id) /\ last.reschedule) =>
          DueEntry(queue, last.socket_id)
    /\ (HasEntry(last.pre, last.socket_id) /\ ~last.reschedule) =>
          (queue = last.pre /\ ~last.signal)

\* C4 as claimed: update(id, reschedule) inserts a due entry when id is absent,
\* leaves a due entry of id and signals the worker when id is present and
\* reschedule is set, and changes nothing and sends no signal when id is present
\* and reschedule is not set.
C4_UpdateReschedulesAndSignals ==
    last.op = "update" =>
        /\ UpdateLeaves
        /\ (HasEntry(last.pre, last.socket_id) /\ last.reschedule) => last.signal

\* C4 as amended: the same, but with id present and reschedule set the worker is
\* signalled exactly when the head of the heap is an entry of id afterwards.
C4_UpdateSignalsWhenHead ==
    last.op = "update" =>
        /\ UpdateLeaves
        /\ (HasEntry(last.pre, last.socket_id) /\ last.reschedule) =>
              (last.signal <=> HeapPeek(queue).socket_id = last.socket_id)

\* a rescheduled entry stays behind another socket's entry: no signal
C4_Witness ==
    /\ last.op = "update"
    /\ HasEntry(last.pre, last.socket_id)
    /\ last.reschedule
    /\ ~last.signal
    /\ DueEntry(queue, last.socket_id)

\* C5: remove(id) deletes every entry of id and leaves every entry of every
\* other socket as it was, with its multiplicity; removing an absent id leaves
\* the heap unchanged.
C5_RemoveFiltersOnlyId ==
    last.op = "remove" =>
        /\ ~HasEntry(queue, last.socket_id)
        /\ \A n \in Nodes :
              n.socket_id # last.socket_id => Count(queue, n) = Count(last.pre, n)
        /\ ~HasEntry(last.pre, last.socket_id) => queue = last.pre

\* two entries of the removed socket go, the other socket's entry stays
C5_Witness ==
    /\ last.op = "remove"
    /\ EntriesOf(last.pre, last.socket_id) = 2
    /\ Len(queue) = 1

Alive(id) == registry[id] # 0

\* the worker has popped an entry of id, resolved the socket and asks it for packets
Serviced(id) == wpc = "next_data_packets" /\ wnode.socket_id = id

\* C2: the send queue does not starve a socket: with the worker and the sender
\* scheduled fairly and time advancing, an entry in the heap whose socket is
\* alive is eventually popped and serviced (unless it is removed or its socket
\* released first), whatever the other sockets do.
C2_NoStarvation ==
    \A id \in Sockets :
        (HasEntry(queue, id) /\ Alive(id))
            ~> (Serviced(id) \/ ~Alive(id) \/ ~HasEntry(queue, id))

\* the worker pops an entry
PopStep == wpc = "peek" /\ wpc' = "get_socket"

\* C6 as claimed: the channel never holds more than 50 batches, and while it
\* holds 50 the worker pops no further heap entry.
C6_NoPopWhileFull ==
    /\ [](chan <= TOKIO_CHANNEL_CAPACITY)
    /\ [][chan = TOKIO_CHANNEL_CAPACITY => ~PopStep]_vars

\* C6 as amended: the channel never holds more than 50 batches; a worker that
\* has reached its hand-off while the channel holds 50 stays there until the
\* sender task has taken a batch, and can go on as soon as there is room.
C6_FullChannelSuspendsHandOff ==
    /\ [](chan <= TOKIO_CHANNEL_CAPACITY)
    /\ []((wpc = "tx_send" /\ chan < TOKIO_CHANNEL_CAPACITY) => ENABLED WorkerSend)
    /\ [][(chan = TOKIO_CHANNEL_CAPACITY /\ wpc = "tx_send") => wpc' = "tx_send"]_vars

C6_Witness == chan = TOKIO_CHANNEL_CAPACITY /\ wpc = "tx_send" /\ spc = "recv"

\* C7: a full send buffer never surfaces to the application as an error: neither
\* send nor poll_write returns OutOfMemory to its caller.
C7_BufferFullNeverSurfaces == wret # "OutOfMemory"

C9_FailedHandshakeIsAnError ==
    /\ (cpc = "done" /\ cstatus = "Broken") => cres = "TimedOut"
    /\ cres = "Connection" => cstatus \notin {"Broken", "Closed"}

\* the first endpoint that answers Ok (0: none)
FirstOk(a) ==
    IF \E i \in 1..Len(a) : a[i] = "Ok"
    THEN CHOOSE i \in 1..Len(a) : a[i] = "Ok" /\ \A j \in 1..(i - 1) : a[j] # "Ok"
    ELSE 0

\* C10: connect tries the endpoints in resolution order and stops at the first
\* whose socket.connect succeeds; when every endpoint fails it returns the error
\* of the last one, and InvalidInput when there is no endpoint.
C10_FirstEndpointThatConnects ==
    LET k == IF FirstOk(addrs) # 0 THEN FirstOk(addrs) ELSE Len(addrs) IN
    /\ cpc \in {"connected?", "wait_for_connection"} => tried = [i \in 1..k |-> i]
    /\ (cpc = "done" /\ cres \notin {"NewSocketError", "LookupError"}) =>
          /\ tried = [i \in 1..k |-> i]
          /\ (FirstOk(addrs) = 0 /\ Len(addrs) > 0) => cres = addrs[Len(addrs)]
          /\ Len(addrs) = 0 => cres = "InvalidInput"
          /\ FirstOk(addrs) # 0 => cres = "Connection"

\* the first endpoint fails, the second connects, the third is never tried
C10_Witness ==
    /\ cpc = "done"
    /\ Len(addrs) = 3
    /\ addrs[1] # "Ok" /\ addrs[2] = "Ok"
    /\ tried = <<1, 2>>
    /\ cres = "Connection"

\* C11: poll_shutdown returns Ready(Ok) only when the socket's status is
\* Closed; otherwise it starts socket.close() in a spawned task and returns
\* Pending; and, close() ending with the socket Closed, a closing task that polls
\* again after each wake eventually gets Ready(Ok).
C11_ShutdownCompletesOnlyClosed ==
    /\ [][PollShutdown =>
            IF status = "Closed"
            THEN sret' = "Ready(Ok)" /\ cnew' = cnew
            ELSE sret' = "Pending" /\ cnew' = cnew + 1 /\ stask' = "pending"]_vars
    /\ [](sret = "Ready(Ok)" => status = "Closed")
    /\ (stask = "pending") ~> (sret = "Ready(Ok)")

\* C11's case: the poll returned Pending, the close it started has ended with
\* the socket Closed and has woken the closing task
C11_Witness == stask = "woken" /\ sret = "Pending" /\ status = "Closed" /\ crun = 0

\* C19: poll_flush returns Ready(Ok) only when the send buffer is empty; while
\* it is not empty poll_flush returns Pending and spawns a task that wakes the
\* flushing task on the next ACK or when the buffer is empty, so that a flush
\* of a buffer that drains for good does not stay pending.
C19_FlushCompletesWhenDrained ==
    /\ [][PollFlush =>
            IF snd_used = 0
            THEN fret' = "Ready(Ok)" /\ fnew' = fnew
            ELSE fret' = "Pending" /\ fnew' = fnew + 1 /\ ftask' = "pending"]_vars
    /\ [][(snd_used' < snd_used /\ fwait > 0) => ftask' # "pending"]_vars
    /\ (<>[](snd_used = 0)) => <>[](ftask # "pending")

\* C19's case: the flush was pending on a send buffer that was not empty, the
\* last ACK has emptied it and the flushing task has been woken
C19_Witness == ftask = "woken" /\ fret = "Pending" /\ snd_used = 0

\* the datagram is the serialized packet as it was sent
Intact == kpc \in {"decoded", "done"} /\ mangled = "none"

\* C12: for every control packet P of type KeepAlive, ACK (light and full), NAK
\* (any list, also the empty one), Shutdown, ACK2, MsgDropRequest and
\* UserDefined, with any header fields, deserialize(serialize(P)) equals P field
\* for field, and serialize(deserialize(b)) equals b for b = serialize(P).
C12_ControlRoundTrip ==
    (Intact /\ pkt.packet_type.tag # "Handshake") =>
        /\ res = Ok(pkt)
        /\ kpc = "done" => again = raw

\* C12's case: a NAK with an empty loss list and a full ACK have made the round
C12_Witness ==
    /\ kpc = "done" /\ mangled = "none"
    /\ \/ pkt.packet_type.tag = "Nak" /\ pkt.packet_type.loss_info = << >>
       \/ pkt.packet_type.tag = "Ack" /\ pkt.packet_type.info.some /\ pkt.reserved = 258

\* C13: for every handshake info with arbitrary field values and any IPv4 or
\* IPv6 peer address, decoding the encoding yields a handshake equal in every
\* field, the address keeping its family and value.
C13_HandshakeRoundTrip ==
    (Intact /\ pkt.packet_type.tag = "Handshake") => res = Ok(pkt)

\* the length of the datagram's Control Information Field
CifLen == Len(raw) - ControlHeaderLen

\* the Control Information Field of the datagram is truncated
TruncatedCif ==
    /\ mangled = "cut"
    /\ Len(raw) >= ControlHeaderLen
    /\ \/ pkt.packet_type.tag = "Handshake" /\ CifLen < 48
       \/ pkt.packet_type.tag = "Ack" /\ (CifLen < 4 \/ CifLen \in 5..23)
       \/ pkt.packet_type.tag = "MsgDropRequest" /\ CifLen < 8
       \/ pkt.packet_type.tag = "Nak" /\ CifLen % 4 # 0

\* C14: a control packet whose Control Information Field is truncated is
\* rejected by deserialize with an InvalidData error: decoding neither aborts
\* the decoder nor accepts the truncated frame.
C14_TruncatedCifIsInvalidData ==
    (kpc = "decoded" /\ TruncatedCif) => res = Err("InvalidData")

\* the type ids of the eight control types
KnownTypeIds == {0, 1, 2, 3, 5, 6, 7, 32767}

\* the 15-bit type id the datagram carries
TypeIdOf(b) == (b[1] % 128) * 256 + b[2]

\* C15: UdtPacket::deserialize returns InvalidData for an empty datagram, for a
\* datagram with first bit 1 and fewer than 16 bytes, and for a control packet
\* whose type id is none of the eight known ones; a datagram with first bit 0 is
\* decoded as a data packet and one with first bit 1 as a control packet.
C15_MalformedIsInvalidData ==
    kpc = "decoded" =>
        /\ raw = << >> => res = Err("InvalidData")
        /\ (raw # << >> /\ raw[1] >= 128 /\ Len(raw) < 16) => res = Err("InvalidData")
        /\ (Len(raw) >= 16 /\ raw[1] >= 128 /\ TypeIdOf(raw) \notin KnownTypeIds)
              => res = Err("InvalidData")
        /\ (raw # << >> /\ raw[1] < 128) =>
              /\ res.ok => res.val.kind = "Data"
              /\ Len(raw) >= 16 => res.ok
        /\ (raw # << >> /\ raw[1] >= 128) =>
              /\ res.ok => res.val.kind = "Control"
              /\ mangled = "none" => res.ok

\* C15's cases: a datagram of 16 bytes or more with an unknown type id was
\* refused, as was a short one with first bit 1
C15_Witness ==
    /\ kpc = "decoded" /\ res = Err("InvalidData")
    /\ \/ mangled = "retyped" /\ TypeIdOf(raw) = 4 /\ Len(raw) > 16
       \/ mangled = "cut" /\ Len(raw) = 15 /\ raw[1] >= 128

\* C16: the worker pops an entry only when it is the earliest of the heap and
\* its timestamp is not after the current time, and it pops whenever some entry
\* is due; when every entry is in the future it pops nothing and waits until
\* the head's instant or a signal, and when the heap is empty it waits for a
\* signal.
C16_PopsEarliestWhenDue ==
    /\ [][PopStep =>
            /\ wnode'.timestamp <= now
            /\ \A i \in 1..Len(queue) : queue[i].timestamp >= wnode'.timestamp
            /\ Len(queue') = Len(queue) - 1
            /\ Count(queue', wnode') = Count(queue, wnode') - 1]_vars
    /\ [][(wpc = "peek" /\ wpc' # "peek") =>
            /\ (\E id \in Sockets : DueEntry(queue, id)) => PopStep
            /\ (Len(queue) > 0 /\ ~\E id \in Sockets : DueEntry(queue, id)) =>
                  /\ wpc' = "select"
                  /\ queue' = queue
                  /\ wnode'.timestamp = HeapPeek(queue).timestamp
            /\ Len(queue) = 0 => (wpc' = "notified" /\ queue' = queue)]_vars
    /\ [][(wpc = "select" /\ wpc' # "select") => (wnode.timestamp <= now \/ notify)]_vars
    /\ [][(wpc = "notified" /\ wpc' # "notified") => notify]_vars

\* C16's case: the worker has popped a due entry while a later one stays in the heap
C16_Witness ==
    /\ wpc = "get_socket"
    /\ \E i \in 1..Len(queue) : queue[i].timestamp > wnode.timestamp

\* C17: each time the worker has popped a due entry of socket s: when s
\* resolves and yields a batch with the instant t, the worker reinserts exactly
\* one entry (t, s) and then hands the batch to the channel; when s is not
\* resolved or yields no batch, nothing is reinserted, nothing is handed to the
\* channel, and the worker goes on to the next entry.  (An error of
\* next_data_packets is neither case: the worker returns, nothing reinserted.)
C17_PopReinsertsAndHandsOff ==
    /\ [][(wpc = "get_socket" /\ wpc' # "get_socket") =>
            /\ queue' = queue /\ chan' = chan
            /\ wpc' = IF registry[wnode.socket_id] # 0 THEN "next_data_packets" ELSE "peek"]_vars
    /\ [][(wpc = "next_data_packets" /\ wpc' # "next_data_packets") =>
            \/ /\ wpc' = "tx_send"
               /\ chan' = chan
               /\ Len(queue') = Len(queue) + 1
               /\ \E ts \in Times :
                     Count(queue', SendQueueNode(ts, wnode.socket_id))
                        = Count(queue, SendQueueNode(ts, wnode.socket_id)) + 1
            \/ /\ wpc' \in {"peek", "returned"}
               /\ chan' = chan
               /\ queue' = queue]_vars
    /\ [][(wpc = "tx_send" /\ wpc' # "tx_send") =>
            /\ wpc' = "peek"
            /\ chan' = chan + 1
            /\ queue' = queue]_vars
    /\ [][chan' > chan => (wpc = "tx_send" /\ chan' = chan + 1)]_vars

\* the worker resolves the socket of the entry it popped
GetSocketStep == wpc = "get_socket" /\ wpc' # "get_socket"

\* C18: when get_socket(id) finds a cached weak reference whose socket has been
\* released, the cache entry is removed on that access; a socket registered
\* under the same id afterwards is resolved from the registry.
C18_DeadCacheEntryPruned ==
    /\ [][(GetSocketStep /\ socket_refs[wnode.socket_id] # 0
              /\ registry[wnode.socket_id] # socket_refs[wnode.socket_id])
            => socket_refs'[wnode.socket_id] = 0]_vars
    /\ [][(GetSocketStep /\ registry[wnode.socket_id] # 0)
            => (wpc' = "next_data_packets"
                  /\ socket_refs'[wnode.socket_id] = registry[wnode.socket_id])]_vars

\* where a task asks for the heap's mutex, and where it runs under the guard
WorkerAsks == wpc \in {"peek", "insert_lock"}
WorkerUnderGuard == wpc \in {"peek_locked", "insert_body"}
WorkerSuspended == wpc \in {"select", "notified", "get_socket", "next_data_packets", "tx_send"}
CallerAsks(c) == tpc[c] \in {"idle", "update_lock_any", "remove_lock", "insert_lock"}
CallerUnderGuard(c) == tpc[c] \in {"update_head", "update_any", "remove_body", "insert_body"}

\* C20: the heap's mutex is held only inside the push/pop/peek sections: the
\* worker does not hold it where it suspends (timer or signal, get_socket,
\* next_data_packets, tx.send), and no task of insert, update, remove or the
\* worker asks for the mutex while it is the holder.
C20_LockHeldOnlyInSections ==
    /\ WorkerSuspended => lock # WorkerTask
    /\ WorkerAsks => lock # WorkerTask
    /\ \A c \in Callers : CallerAsks(c) => lock # CallerTask(c)
    /\ lock = WorkerTask => WorkerUnderGuard
    /\ \A c \in Callers : lock = CallerTask(c) => CallerUnderGuard(c)

\* update has evaluated its condition and asks for the mutex again inside
\* insert, while the worker waits for it in its own insert and a third task
\* holds it
C20_Witness ==
    \E c \in Callers :
        /\ tpc[c] = "insert_lock" /\ targ[c].op = "update"
        /\ wpc = "insert_lock"
        /\ lock \notin {NoTask, WorkerTask, CallerTask(c)}

\* C21: while the worker runs and other tasks call update(id, false) and
\* update(id, true), the heap holds at most one entry per socket id in every
\* reachable state.
C21_OneEntryPerSocket == \A id \in Sockets : EntriesOf(queue, id) <= 1

\* C22: once remove(id) has returned, and until a task calls update for id,
\* the heap holds no entry of id and the worker hands no batch of socket id to
\* the channel, also when the worker had popped an entry of id before the
\* remove.  (A remove that returns while a call of update for id is running is
\* left out of the statement.)
C22_RemoveIsFinal ==
    /\ [](\A id \in removed : ~HasEntry(queue, id))
    /\ [][\A id \in removed :
            ~(wpc = "tx_send" /\ wnode.socket_id = id /\ chan' = chan + 1)]_vars

\* the live sockets that have an entry in the heap
Waiting(data) == {id \in Sockets : HasEntry(data, id) /\ Alive(id)}

\* C23: a failure of one socket does not stop the scheduler for the others:
\* the worker does not end on an error of next_data_packets of one socket while
\* another live socket has an entry in the heap, and it does not end after a
\* failure of send_data_packets in the sender task while more than one live
\* socket has an entry in the heap.
C23_FailureIsConfined ==
    /\ [][(wpc = "next_data_packets" /\ wpc' = "returned")
            => Waiting(queue) \subseteq {wnode.socket_id}]_vars
    /\ [][(wpc = "tx_send" /\ wpc' = "panicked")
            => Cardinality(Waiting(queue)) <= 1]_vars

====
